---------------------------- MODULE Spec2Model ----------------------------
(***************************************************************************)
(* A model of the Analemma PWA: the analemma table loader (memoised in a   *)
(* module-level cache), the coordinate transform, the visualization        *)
(* assembler (AnalemmaRenderer), coordinate validation, and the two        *)
(* application controllers (SimplifiedAnalemmaPWA, AnalemmaPWA).           *)
(*                                                                         *)
(* JavaScript numbers are modelled as exact rationals extended with NaN    *)
(* and the two infinities; floating-point rounding is not modelled.  The   *)
(* year is scaled down to YearLen days, and the trigonometric formulas of  *)
(* the data generator are replaced by integer waves of the same shape.     *)
(***************************************************************************)
EXTENDS Integers, Sequences, FiniteSets, TLC

---------------------------------------------------------------------------
(* Bounds of the model *)

\* days in the scaled-down (leap) year; the shipped table has 366
YearLen == 6
\* concurrent callers / requests
NumCallers == 2
\* operations the callers may start in total
MaxCalls == 2

Callers == 1..NumCallers

---------------------------------------------------------------------------
(* JavaScript values *)

Null == [k |-> "null"]
Undefined == [k |-> "undefined"]
Str(s) == [k |-> "string", s |-> s]
NaN == [k |-> "nan"]
PosInf == [k |-> "inf"]
NegInf == [k |-> "ninf"]

Abs(n) == IF n < 0 THEN -n ELSE n

RECURSIVE GCD(_, _)
GCD(a, b) == IF b = 0 THEN a ELSE GCD(b, a % b)

\* the rational n/d (d # 0) in lowest terms with a positive denominator
Rat(n, d) ==
    LET s == IF d < 0 THEN -1 ELSE 1
        g == GCD(Abs(n), Abs(d))
    IN  [k |-> "num", n |-> (s * n) \div g, d |-> (s * d) \div g]

Num(n) == [k |-> "num", n |-> n, d |-> 1]

\* typeof v === 'number'
TypeofNumber(v) == v.k \in {"num", "nan", "inf", "ninf"}

\* Number.isNaN / isNaN on a number
IsNaN(v) == v.k = "nan"

Sign(v) ==
    CASE v.k = "inf" -> 1
      [] v.k = "ninf" -> -1
      [] v.k = "num" -> (IF v.n > 0 THEN 1 ELSE IF v.n < 0 THEN -1 ELSE 0)
      [] OTHER -> 0

\* a < b on numbers: false as soon as one side is NaN
JsLt(a, b) ==
    CASE a.k = "nan" \/ b.k = "nan" -> FALSE
      [] a.k = "ninf" -> b.k # "ninf"
      [] a.k = "inf" -> FALSE
      [] b.k = "inf" -> TRUE
      [] b.k = "ninf" -> FALSE
      [] OTHER -> a.n * b.d < b.n * a.d

JsGt(a, b) == JsLt(b, a)
JsLe(a, b) == a.k # "nan" /\ b.k # "nan" /\ ~JsLt(b, a)
JsGe(a, b) == JsLe(b, a)

JsNeg(a) ==
    CASE a.k = "nan" -> NaN
      [] a.k = "inf" -> NegInf
      [] a.k = "ninf" -> PosInf
      [] OTHER -> Rat(-a.n, a.d)

JsAdd(a, b) ==
    CASE a.k = "nan" \/ b.k = "nan" -> NaN
      [] a.k = "inf" -> (IF b.k = "ninf" THEN NaN ELSE PosInf)
      [] a.k = "ninf" -> (IF b.k = "inf" THEN NaN ELSE NegInf)
      [] b.k \in {"inf", "ninf"} -> b
      [] OTHER -> Rat(a.n * b.d + b.n * a.d, a.d * b.d)

JsSub(a, b) == JsAdd(a, JsNeg(b))

JsMul(a, b) ==
    CASE a.k = "nan" \/ b.k = "nan" -> NaN
      [] a.k \in {"inf", "ninf"} \/ b.k \in {"inf", "ninf"} ->
            (IF Sign(a) * Sign(b) = 0 THEN NaN
             ELSE IF Sign(a) * Sign(b) > 0 THEN PosInf ELSE NegInf)
      [] OTHER -> Rat(a.n * b.n, a.d * b.d)

\* a / b; a finite number divided by zero is an infinity, 0/0 is NaN
JsDiv(a, b) ==
    CASE a.k = "nan" \/ b.k = "nan" -> NaN
      [] a.k \in {"inf", "ninf"} ->
            (IF b.k \in {"inf", "ninf"} THEN NaN
             ELSE IF Sign(a) * (IF Sign(b) < 0 THEN -1 ELSE 1) > 0 THEN PosInf ELSE NegInf)
      [] b.k \in {"inf", "ninf"} -> Num(0)
      [] b.n = 0 -> (IF a.n = 0 THEN NaN ELSE IF a.n > 0 THEN PosInf ELSE NegInf)
      [] OTHER -> Rat(a.n * b.d, a.d * b.n)

\* Math.min(...values) / Math.max(...values) over a sequence of numbers
RECURSIVE JsMinFrom(_, _, _)
JsMinFrom(s, i, acc) ==
    IF i > Len(s) THEN acc
    ELSE JsMinFrom(s, i + 1,
            IF acc.k = "nan" \/ s[i].k = "nan" THEN NaN
            ELSE IF JsLt(s[i], acc) THEN s[i] ELSE acc)

MathMin(s) == JsMinFrom(s, 1, PosInf)

RECURSIVE JsMaxFrom(_, _, _)
JsMaxFrom(s, i, acc) ==
    IF i > Len(s) THEN acc
    ELSE JsMaxFrom(s, i + 1,
            IF acc.k = "nan" \/ s[i].k = "nan" THEN NaN
            ELSE IF JsGt(s[i], acc) THEN s[i] ELSE acc)

MathMax(s) == JsMaxFrom(s, 1, NegInf)

---------------------------------------------------------------------------
(* Outcomes of calls that may throw *)

Ok(v) == [ok |-> TRUE, v |-> v]
Throw(message) == [ok |-> FALSE, message |-> message]

---------------------------------------------------------------------------
(* Dates.  A Date is its local calendar ordinal `ord` (1 = January 1), its  *)
(* local hour of day, and `shift`: the local UTC offset at that instant    *)
(* minus the offset at the preceding December 31 (1 under northern summer  *)
(* time, -1 in southern winter, else 0), in hours.                         *)

Date(ord, hour, shift) == [k |-> "date", ord |-> ord, hour |-> hour, shift |-> shift]

MsTypeError == "Cannot read properties of null (reading 'getFullYear')"

\* getDayOfYear: floor((date - new Date(year, 0, 0)) / oneDay)
getDayOfYear(date) ==
    IF date = Null THEN Throw(MsTypeError)
    ELSE Ok((date.ord * 24 + date.hour - date.shift) \div 24)

---------------------------------------------------------------------------
(* Solar model *)

\* integer wave standing for the declination formula: one period a year,
\* amplitude 23 degrees, maximum at mid-year
calculateSolarDeclination(dayOfYear) ==
    23 - (46 * Abs(2 * dayOfYear - YearLen)) \div YearLen

\* integer wave standing for the equation of time, amplitude 16 minutes
calculateEquationOfTime(dayOfYear) ==
    16 - (32 * Abs(((3 * dayOfYear) % (2 * YearLen)) - YearLen)) \div YearLen

JsAbs(a) == IF JsLt(a, Num(0)) THEN JsNeg(a) ELSE a

\* 90 - |latitude - declination(dayOfYear(date))|
calculateSolarElevationAtNoon(latitude, date) ==
    LET d == getDayOfYear(date)
    IN  IF ~d.ok THEN d
        ELSE Ok(JsSub(Num(90),
                      JsAbs(JsSub(latitude, Num(calculateSolarDeclination(d.v))))))

isSunBelowHorizonAtNoon(latitude, date) ==
    LET e == calculateSolarElevationAtNoon(latitude, date)
    IN  IF ~e.ok THEN e ELSE Ok(JsLt(e.v, Num(0)))

\* Math.floor on a number
MathFloor(v) == IF v.k = "num" THEN Num(v.n \div v.d) ELSE v

\* the integer a Date setter makes of a finite argument: truncation toward zero
ToInteger(v) == IF v.n >= 0 THEN v.n \div v.d ELSE -((-v.n) \div v.d)

\* the UTC calendar day (as an ordinal of the local year) of the instant `date`,
\* where the local clock is `offset` hours ahead of UTC
UtcDayOf(date, offset) == (date.ord * 24 + date.hour - offset) \div 24

\* date.setUTCHours(hours, minutes, 0, 0) on UTC day `day`: the fields of the
\* instant day 00:00 UTC + hours h + minutes min, carried into range
setUTCHours(day, hours, minutes) ==
    LET total == hours * 60 + minutes
    IN  [utcDay |-> day + total \div 1440,
         utcHours |-> (total % 1440) \div 60,
         utcMinutes |-> total % 60,
         utcSeconds |-> 0,
         utcMilliseconds |-> 0]

\* a solar noon that counts eastern longitudes as later
SolarNoonWestEarly(longitude, date, offset) ==
    LET dayOfYear == getDayOfYear(date)
        solarNoonUTC == JsSub(JsAdd(Num(12), JsDiv(longitude, Num(15))),
                              JsDiv(Num(calculateEquationOfTime(dayOfYear.v)), Num(60)))
        hours == MathFloor(solarNoonUTC)
        minutes == JsMul(JsSub(solarNoonUTC, hours), Num(60))
    IN  IF ~dayOfYear.ok THEN dayOfYear
        ELSE IF solarNoonUTC.k # "num" THEN Ok([k |-> "Invalid Date"])
        ELSE Ok(setUTCHours(UtcDayOf(date, offset), hours.n, ToInteger(minutes)))

\* calculateSolarNoon(longitude, date) in a zone `offset` hours ahead of UTC
calculateSolarNoon(longitude, date, offset) ==
    LET dayOfYear == getDayOfYear(date)
        solarNoonUTC == JsSub(JsSub(Num(12), JsDiv(longitude, Num(15))),
                              JsDiv(Num(calculateEquationOfTime(dayOfYear.v)), Num(60)))
        hours == MathFloor(solarNoonUTC)
        minutes == JsMul(JsSub(solarNoonUTC, hours), Num(60))
    IN  IF ~dayOfYear.ok THEN dayOfYear
        ELSE IF solarNoonUTC.k # "num" THEN Ok([k |-> "Invalid Date"])
        ELSE Ok(setUTCHours(UtcDayOf(date, offset), hours.n, ToInteger(minutes)))

\* a direction rule that looks south from the equator as well
DirectionSouthAtEquator(latitude) == IF JsGe(latitude, Num(0)) THEN "S" ELSE "N"

\* latitude > 0 ? 'S' : 'N'
getAnalemmaDirection(latitude) == IF JsGt(latitude, Num(0)) THEN "S" ELSE "N"

MsNotNumbers == "Coordinates must be numbers"
MsLatitude == "Latitude must be between -90 and 90 degrees"
MsLongitude == "Longitude must be between -180 and 180 degrees"

validateCoordinates(latitude, longitude) ==
    IF ~TypeofNumber(latitude) \/ ~TypeofNumber(longitude)
    THEN [isValid |-> FALSE, error |-> MsNotNumbers]
    ELSE IF JsLt(latitude, Num(-90)) \/ JsGt(latitude, Num(90))
    THEN [isValid |-> FALSE, error |-> MsLatitude]
    ELSE IF JsLt(longitude, Num(-180)) \/ JsGt(longitude, Num(180))
    THEN [isValid |-> FALSE, error |-> MsLongitude]
    ELSE [isValid |-> TRUE]

---------------------------------------------------------------------------
(* Analemma table: `data` maps day keys to <<x, y>> *)

\* the generator's output for the (leap) year: one entry per day
generateAnalemmaData ==
    [data |-> [d \in 1..YearLen |->
                 <<Num(calculateEquationOfTime(d)), Num(calculateSolarDeclination(d))>>]]

\* integer-like object keys enumerate in ascending order
RECURSIVE KeysAscending(_)
KeysAscending(S) ==
    IF S = {} THEN <<>>
    ELSE LET m == CHOOSE x \in S : \A y \in S : x <= y
         IN  <<m>> \o KeysAscending(S \ {m})

MsNoData(day) == "No analemma data found for day " \o ToString(day)

\* a lookup that indexes the table with the unclamped day
CoordinatesUnclamped(table, date) ==
    LET d == getDayOfYear(date)
    IN  IF ~d.ok THEN d
        ELSE IF d.v \notin DOMAIN table.data THEN Throw(MsNoData(d.v))
        ELSE Ok([x |-> table.data[d.v][1],
                 y |-> table.data[d.v][2],
                 dayOfYear |-> d.v,
                 date |-> date])

\* a lookup that hands back the entry's two components swapped
CoordinatesSwapped(table, date) ==
    LET d == getDayOfYear(date)
        maxDay == Cardinality(DOMAIN table.data)
        adjustedDay == IF d.v < maxDay THEN d.v ELSE maxDay
    IN  IF ~d.ok THEN d
        ELSE IF adjustedDay \notin DOMAIN table.data THEN Throw(MsNoData(adjustedDay))
        ELSE Ok([x |-> table.data[adjustedDay][2],
                 y |-> table.data[adjustedDay][1],
                 dayOfYear |-> adjustedDay,
                 date |-> date])

\* getAnalemmaCoordinatesForDate after the table `table` has been obtained
CoordinatesForDate(table, date) ==
    LET d == getDayOfYear(date)
        maxDay == Cardinality(DOMAIN table.data)
        adjustedDay == IF d.v < maxDay THEN d.v ELSE maxDay
    IN  IF ~d.ok THEN d
        ELSE IF adjustedDay \notin DOMAIN table.data THEN Throw(MsNoData(adjustedDay))
        ELSE Ok([x |-> table.data[adjustedDay][1],
                 y |-> table.data[adjustedDay][2],
                 dayOfYear |-> adjustedDay,
                 date |-> date])

\* an enumeration that visits the keys from the last day back to the first
AllCoordinatesDescending(table) ==
    LET keys == KeysAscending(DOMAIN table.data)
    IN  [i \in 1..Len(keys) |->
            [dayOfYear |-> keys[Len(keys) + 1 - i],
             x |-> table.data[keys[Len(keys) + 1 - i]][1],
             y |-> table.data[keys[Len(keys) + 1 - i]][2]]]

\* getAllAnalemmaCoordinates after the table has been obtained
AllCoordinates(table) ==
    LET keys == KeysAscending(DOMAIN table.data)
    IN  [i \in 1..Len(keys) |->
            [dayOfYear |-> keys[i],
             x |-> table.data[keys[i]][1],
             y |-> table.data[keys[i]][2]]]

---------------------------------------------------------------------------
(* Coordinate transform *)

SvgWidth == 400
SvgHeight == 300
Padding == 30

Field(seq, f) == [i \in 1..Len(seq) |-> seq[i][f]]

DataBounds(coordinates) ==
    [xMin |-> MathMin(Field(coordinates, "x")),
     xMax |-> MathMax(Field(coordinates, "x")),
     yMin |-> MathMin(Field(coordinates, "y")),
     yMax |-> MathMax(Field(coordinates, "y"))]

XScale(b) == JsDiv(Num(SvgWidth - Padding - Padding), JsSub(b.xMax, b.xMin))
YScale(b) == JsDiv(Num(SvgHeight - Padding - Padding), JsSub(b.yMax, b.yMin))

\* one point with svgX, svgY added (the spread keeps the point's own fields)
WithSvg(coord, svgX, svgY) ==
    [f \in (DOMAIN coord) \cup {"svgX", "svgY"} |->
        IF f = "svgX" THEN svgX ELSE IF f = "svgY" THEN svgY ELSE coord[f]]

convertToSVGCoordinates(coordinates) ==
    LET b == DataBounds(coordinates)
    IN  [i \in 1..Len(coordinates) |->
            WithSvg(coordinates[i],
                    JsAdd(Num(Padding), JsMul(JsSub(coordinates[i].x, b.xMin), XScale(b))),
                    JsAdd(Num(Padding), JsMul(JsSub(b.yMax, coordinates[i].y), YScale(b))))]

\* a correction that also flips at the equator
FlipAtEquator(coordinates, latitude) ==
    IF JsLe(latitude, Num(0))
    THEN [i \in 1..Len(coordinates) |->
            WithSvg(coordinates[i], coordinates[i].svgX,
                    JsSub(Num(SvgHeight), coordinates[i].svgY))]
    ELSE coordinates

applyHemisphereCorrection(coordinates, latitude) ==
    IF JsLt(latitude, Num(0))
    THEN [i \in 1..Len(coordinates) |->
            WithSvg(coordinates[i], coordinates[i].svgX,
                    JsSub(Num(SvgHeight), coordinates[i].svgY))]
    ELSE coordinates

\* [...coordinates].sort((a, b) => a.dayOfYear - b.dayOfYear): a stable sort
RECURSIVE InsertByDay(_, _)
InsertByDay(sorted, c) ==
    IF sorted = <<>> THEN <<c>>
    ELSE IF Head(sorted).dayOfYear <= c.dayOfYear
         THEN <<Head(sorted)>> \o InsertByDay(Tail(sorted), c)
         ELSE <<c>> \o sorted

RECURSIVE SortByDay(_)
SortByDay(coordinates) ==
    IF coordinates = <<>> THEN <<>>
    ELSE InsertByDay(SortByDay(SubSeq(coordinates, 1, Len(coordinates) - 1)),
                     coordinates[Len(coordinates)])

\* coordinates.sort(...): the caller's array itself is put in order
SortInPlace(coordinates) ==
    [sortedCoords |-> SortByDay(coordinates), coordinates |-> SortByDay(coordinates)]

\* [...coordinates].sort(...): the sorted copy, and the caller's array afterwards
SortCopy(coordinates) ==
    [sortedCoords |-> SortByDay(coordinates), coordinates |-> coordinates]

\* the path string as its sequence of commands, closed by Z
generateSVGPath(coordinates) ==
    IF Len(coordinates) = 0 THEN <<>>
    ELSE LET sortedCoords == SortCopy(coordinates).sortedCoords
         IN  [i \in 1..(Len(sortedCoords) + 1) |->
                IF i = 1 THEN <<"M", sortedCoords[1].svgX, sortedCoords[1].svgY>>
                ELSE IF i <= Len(sortedCoords)
                THEN <<"L", sortedCoords[i].svgX, sortedCoords[i].svgY>>
                ELSE <<"Z">>]

JsMin2(a, b) == IF a.k = "nan" \/ b.k = "nan" THEN NaN ELSE IF JsLt(b, a) THEN b ELSE a
JsMax2(a, b) == IF a.k = "nan" \/ b.k = "nan" THEN NaN ELSE IF JsGt(b, a) THEN b ELSE a

calculateBounds(coordinates) ==
    IF Len(coordinates) = 0
    THEN [minX |-> Num(0), maxX |-> Num(0), minY |-> Num(0), maxY |-> Num(0)]
    ELSE [minX |-> MathMin(Field(coordinates, "svgX")),
          maxX |-> MathMax(Field(coordinates, "svgX")),
          minY |-> MathMin(Field(coordinates, "svgY")),
          maxY |-> MathMax(Field(coordinates, "svgY"))]

calculateDirection(latitude) ==
    LET direction == getAnalemmaDirection(latitude)
    IN  [direction |-> direction,
         rotation |-> IF JsLt(latitude, Num(0)) THEN 180 ELSE 0,
         label |-> IF direction = "N" THEN "Looking North" ELSE "Looking South"]

---------------------------------------------------------------------------
(* State *)

VARIABLES
    analemmaCacheData,  \* the module-level table cache: Null or a table
    resource,           \* the table asset: [status, asset]
    request,            \* the (location, date) the application asks to visualize
    fetchCount,         \* fetch('assets/analemma-data.json') calls issued so far
    pc,                 \* per caller: where its pending operation stands
    frame,              \* per caller: the pending operation's arguments and locals
    loadOut,            \* per caller: what its last loadAnalemmaData call produced
    result,             \* per caller: what its last finished operation returned
    calls,              \* per caller: operations started (MaxCalls in total)
    call,               \* the pure function applied last and its arguments
    ret,                \* what that application returned
    app,                \* which controller runs: SimplifiedAnalemmaPWA or AnalemmaPWA
    state,              \* the controller's application state
    storage,            \* the saved location in localStorage (Null when absent)
    perm,               \* the browser's geolocation permission state
    tasks,              \* the controller's pending async activations
    pipeline,           \* locations handed to the solar-noon / visualization code
    store,              \* an AppState object: its state, its listeners, its last update
    net,                \* the online flag, the connectivity checks pending, the last event
    clock               \* the calendar day, state.currentDate, the day the marker shows

loaderVars == <<analemmaCacheData, resource, request, fetchCount, pc, frame, loadOut,
                result, calls>>
fnVars == <<call, ret>>
appVars == <<app, state, storage, perm, tasks, pipeline, store, net,
             clock>>
vars == <<loaderVars, fnVars, appVars>>

\* the parts of the state a specification does not use stay as they start
FnIdle == call = Null /\ ret = Null
AppIdle ==
    /\ app = [kind |-> "none"]
    /\ state = Null
    /\ storage = Null
    /\ perm = "prompt"
    /\ tasks = <<>>
    /\ pipeline = {}
    /\ store = Null
    /\ net = Null
    /\ clock = Null

NoFrame == [op |-> "none"]

RECURSIVE SumOver(_, _)
SumOver(f, S) ==
    IF S = {} THEN 0
    ELSE LET x == CHOOSE y \in S : TRUE IN f[x] + SumOver(f, S \ {x})

\* operations started so far by all callers
TotalCalls == SumOver(calls, Callers)

---------------------------------------------------------------------------
(* The table asset and loadAnalemmaData *)

Statuses == {"ok", "notOk", "down"}

\* what the asset holds: the generated table, or a malformed one
AssetTable(asset) ==
    CASE asset = "canonical" -> generateAnalemmaData
      [] asset = "single" ->
            [data |-> [d \in {1} |-> generateAnalemmaData.data[d]]]
      [] asset = "gap" ->
            [data |-> [d \in (1..YearLen) \ {2} |-> generateAnalemmaData.data[d]]]

MsLoadFailed == "Could not load analemma coordinate data"

\* a loader that never consults the cache
CacheIgnored(cache) == FALSE

\* if (analemmaCacheData)
CacheHit(cache) == cache # Null

\* the synchronous part of a loadAnalemmaData call made by caller c
EnterLoad(c) ==
    IF CacheHit(analemmaCacheData)
    THEN /\ pc' = [pc EXCEPT ![c] = "resume"]
         /\ loadOut' = [loadOut EXCEPT ![c] = Ok(analemmaCacheData)]
         /\ fetchCount' = fetchCount
    ELSE /\ pc' = [pc EXCEPT ![c] = "awaitFetch"]
         /\ loadOut' = [loadOut EXCEPT ![c] = Null]
         /\ fetchCount' = fetchCount + 1

\* a catch block that swallows the failure and keeps waiting
LoadFailureSwallowed(status) == [pc |-> "awaitFetch", out |-> Null]

\* the catch block: where a failed load leaves its caller
LoadFailure(status) == [pc |-> "resume", out |-> Throw(MsLoadFailed)]

\* a catch block that remembers the failure in place of the table
CacheFailureRecorded(cache) == [data |-> <<>>]

\* the cache after the catch block: nothing is assigned to analemmaCacheData
CacheAfterFailure(cache) == cache

\* await fetch(...) settles: rejected, or a response whose ok flag is tested
FetchSettle(c) ==
    /\ pc[c] = "awaitFetch"
    /\ IF resource.status = "ok"
       THEN /\ pc' = [pc EXCEPT ![c] = "awaitJson"]
            /\ UNCHANGED <<loadOut, analemmaCacheData>>
       ELSE /\ pc' = [pc EXCEPT ![c] = LoadFailure(resource.status).pc]
            /\ loadOut' = [loadOut EXCEPT ![c] = LoadFailure(resource.status).out]
            /\ analemmaCacheData' = CacheAfterFailure(analemmaCacheData)
    /\ UNCHANGED <<resource, request, fetchCount, frame, result, calls,
                 fnVars, appVars>>

\* analemmaCacheData = await response.json(); return analemmaCacheData
JsonSettle(c) ==
    /\ pc[c] = "awaitJson"
    /\ analemmaCacheData' = AssetTable(resource.asset)
    /\ loadOut' = [loadOut EXCEPT ![c] = Ok(analemmaCacheData')]
    /\ pc' = [pc EXCEPT ![c] = "resume"]
    /\ UNCHANGED <<resource, request, fetchCount, frame, result, calls,
                 fnVars, appVars>>

\* the asset becomes reachable or unreachable
ResourceChange ==
    /\ \E st \in Statuses \ {resource.status} :
          resource' = [resource EXCEPT !.status = st]
    /\ UNCHANGED <<analemmaCacheData, request, fetchCount, pc, frame, loadOut, result, calls,
                 fnVars, appVars>>

\* a direct caller of loadAnalemmaData (getAnalemmaBounds, getAnalemmaMetadata)
LoadCall(c) ==
    /\ pc[c] \in {"idle", "done"}
    /\ TotalCalls < MaxCalls
    /\ calls' = [calls EXCEPT ![c] = @ + 1]
    /\ frame' = [frame EXCEPT ![c] = [op |-> "load", ctx |-> "top"]]
    /\ EnterLoad(c)
    /\ UNCHANGED <<analemmaCacheData, resource, request, result,
                 fnVars, appVars>>

\* the direct caller's await completes
LoadResume(c) ==
    /\ pc[c] = "resume"
    /\ frame[c].op = "load"
    /\ result' = [result EXCEPT ![c] = loadOut[c]]
    /\ pc' = [pc EXCEPT ![c] = "done"]
    /\ frame' = [frame EXCEPT ![c] = NoFrame]
    /\ UNCHANGED <<analemmaCacheData, resource, request, fetchCount, loadOut, calls,
                 fnVars, appVars>>

LoadInit ==
    /\ analemmaCacheData = Null
    /\ resource \in [status : Statuses, asset : {"canonical"}]
    /\ request = Null
    /\ fetchCount = 0
    /\ pc = [c \in Callers |-> "idle"]
    /\ frame = [c \in Callers |-> NoFrame]
    /\ loadOut = [c \in Callers |-> Null]
    /\ result = [c \in Callers |-> Null]
    /\ calls = [c \in Callers |-> 0]
    /\ FnIdle
    /\ AppIdle

LoadNext ==
    \/ \E c \in Callers : LoadCall(c)
    \/ \E c \in Callers : FetchSettle(c)
    \/ \E c \in Callers : JsonSettle(c)
    \/ \E c \in Callers : LoadResume(c)
    \/ ResourceChange

\* every pending fetch settles and every continuation is run by the event loop
LoadSpec ==
    /\ LoadInit
    /\ [][LoadNext]_vars
    /\ \A c \in Callers : WF_vars(FetchSettle(c))
    /\ \A c \in Callers : WF_vars(JsonSettle(c))
    /\ \A c \in Callers : WF_vars(LoadResume(c))

---------------------------------------------------------------------------
(* AnalemmaRenderer.generateVisualization *)

MsNoLocation == "No location provided"

\* a null-location result that reports no error
NoLocationSilent ==
    [path |-> Null, sunPosition |-> Null, direction |-> Null,
     isExtreme |-> FALSE, error |-> Null]

NoLocationResult ==
    [path |-> Null, sunPosition |-> Null, direction |-> Null,
     isExtreme |-> FALSE, error |-> Str(MsNoLocation)]

\* the value the catch block returns
ErrorResult(message) ==
    [path |-> Null, sunPosition |-> Null, direction |-> Null,
     isExtreme |-> FALSE, error |-> Str(message)]

\* a catch block that lets the error escape to the caller
CatchRethrows(message) == Throw(message)

\* try { ... } catch (error) { return {..., error: error.message} }
CatchVisualization(message) == Ok(ErrorResult(message))

\* [...allCoords, todayCoords] in calculatePath
PathTransformInput(allCoords, todayCoords) == Append(allCoords, todayCoords)

\* a marker transformed on its own, without the path's points
MarkerAlone(allCoords, todayCoords) == <<todayCoords>>

\* [...allCoords, todayCoords] in calculateSunPosition
SunTransformInput(allCoords, todayCoords) == Append(allCoords, todayCoords)

\* calculatePath once both awaits have completed
PathData(allCoords, todayCoords, latitude) ==
    LET svgCoords == convertToSVGCoordinates(PathTransformInput(allCoords, todayCoords))
        analemmaCoords == SubSeq(svgCoords, 1, Len(allCoords))
        correctedCoords == applyHemisphereCorrection(analemmaCoords, latitude)
    IN  [pathString |-> generateSVGPath(correctedCoords),
         coordinates |-> correctedCoords,
         bounds |-> calculateBounds(correctedCoords)]

\* calculateSunPosition once both awaits have completed
SunPosition(allCoords, todayCoords, latitude) ==
    LET svgCoords == convertToSVGCoordinates(SunTransformInput(allCoords, todayCoords))
        todaySvgCoords == SubSeq(svgCoords, Len(svgCoords), Len(svgCoords))
        corrected == applyHemisphereCorrection(todaySvgCoords, latitude)
    IN  IF Len(corrected) = 0 THEN Null
        ELSE [x |-> corrected[1].svgX,
              y |-> corrected[1].svgY,
              elevation |-> Undefined,
              azimuth |-> Undefined,
              date |-> todayCoords.date]

\* a result that withholds the drawing when the sun stays below the horizon
VisualizationSuppressed(pathData, sunPosition, direction, isExtreme) ==
    [path |-> IF isExtreme THEN Null ELSE pathData,
     sunPosition |-> IF isExtreme THEN Null ELSE sunPosition,
     direction |-> direction, isExtreme |-> isExtreme, error |-> Null]

\* the object the try block returns
Visualization(pathData, sunPosition, direction, isExtreme) ==
    [path |-> pathData, sunPosition |-> sunPosition, direction |-> direction,
     isExtreme |-> isExtreme, error |-> Null]

\* the request ends: its promise settles with `outcome`
Finish(c, outcome, fr) ==
    /\ result' = [result EXCEPT ![c] = outcome]
    /\ pc' = [pc EXCEPT ![c] = "done"]
    /\ frame' = [frame EXCEPT ![c] = fr]
    /\ UNCHANGED <<fetchCount, loadOut>>

VizFrame(location, date) ==
    [op |-> "viz", ctx |-> "start", location |-> location, date |-> date,
     isExtreme |-> FALSE, allCoords |-> <<>>, todayCoords |-> Null,
     pathData |-> Null, runs |-> <<>>]

\* generateVisualization(location, date) up to its first await
VizCall(c, location, date) ==
    /\ pc[c] \in {"idle", "done"}
    /\ TotalCalls < MaxCalls
    /\ calls' = [calls EXCEPT ![c] = @ + 1]
    /\ IF location = Null
       THEN Finish(c, Ok(NoLocationResult), VizFrame(location, date))
       ELSE LET isExtreme == isSunBelowHorizonAtNoon(location.latitude, date)
            IN  IF ~isExtreme.ok
                THEN Finish(c, CatchVisualization(isExtreme.message),
                            VizFrame(location, date))
                ELSE /\ frame' = [frame EXCEPT ![c] =
                            [VizFrame(location, date) EXCEPT
                                !.ctx = "path_all", !.isExtreme = isExtreme.v]]
                     /\ EnterLoad(c)
                     /\ UNCHANGED result
    /\ UNCHANGED <<analemmaCacheData, resource, request,
                 fnVars, appVars>>

\* the continuation of generateVisualization after an awaited table load
VizResume(c) ==
    /\ pc[c] = "resume"
    /\ frame[c].op = "viz"
    /\ LET fr == frame[c]
           out == loadOut[c]
           today == CoordinatesForDate(out.v, fr.date)
           lat == fr.location.latitude
       IN  IF ~out.ok
           THEN Finish(c, CatchVisualization(out.message), fr)
           ELSE CASE fr.ctx = "path_all" ->
                      /\ frame' = [frame EXCEPT ![c] =
                            [fr EXCEPT !.ctx = "path_today",
                                       !.allCoords = AllCoordinates(out.v)]]
                      /\ EnterLoad(c)
                      /\ UNCHANGED result
                  [] fr.ctx = "path_today" ->
                      IF ~today.ok
                      THEN Finish(c, CatchVisualization(today.message), fr)
                      ELSE /\ frame' = [frame EXCEPT ![c] =
                                [fr EXCEPT
                                    !.ctx = "sun_today",
                                    !.pathData = PathData(fr.allCoords, today.v, lat),
                                    !.runs = Append(@,
                                        PathTransformInput(fr.allCoords, today.v))]]
                           /\ EnterLoad(c)
                           /\ UNCHANGED result
                  [] fr.ctx = "sun_today" ->
                      IF ~today.ok
                      THEN Finish(c, CatchVisualization(today.message), fr)
                      ELSE /\ frame' = [frame EXCEPT ![c] =
                                [fr EXCEPT !.ctx = "sun_all", !.todayCoords = today.v]]
                           /\ EnterLoad(c)
                           /\ UNCHANGED result
                  [] fr.ctx = "sun_all" ->
                      LET allCoords == AllCoordinates(out.v)
                      IN  Finish(c,
                                 Ok(Visualization(
                                        fr.pathData,
                                        SunPosition(allCoords, fr.todayCoords, lat),
                                        calculateDirection(lat),
                                        fr.isExtreme)),
                                 [fr EXCEPT
                                    !.ctx = "end",
                                    !.runs = Append(@,
                                        SunTransformInput(allCoords, fr.todayCoords))])
    /\ UNCHANGED <<analemmaCacheData, resource, request, calls,
                 fnVars, appVars>>

Loc(latitude, longitude) == [latitude |-> Num(latitude), longitude |-> Num(longitude)]

\* the requests' inputs
VizLocations == {Null, Loc(49, -123), Loc(-34, 151), Loc(80, 20)}
VizDates == {Null, Date(2, 12, 0), Date(YearLen, 12, 0)}
Assets == {"canonical", "single", "gap"}

VizInit ==
    /\ analemmaCacheData = Null
    /\ resource \in [status : Statuses, asset : Assets]
    /\ request \in [location : VizLocations, date : VizDates]
    /\ fetchCount = 0
    /\ pc = [c \in Callers |-> "idle"]
    /\ frame = [c \in Callers |-> NoFrame]
    /\ loadOut = [c \in Callers |-> Null]
    /\ result = [c \in Callers |-> Null]
    /\ calls = [c \in Callers |-> 0]
    /\ FnIdle
    /\ AppIdle

VizNext ==
    \/ \E c \in Callers : VizCall(c, request.location, request.date)
    \/ \E c \in Callers : FetchSettle(c)
    \/ \E c \in Callers : JsonSettle(c)
    \/ \E c \in Callers : VizResume(c)
    \/ ResourceChange

VizSpec == VizInit /\ [][VizNext]_vars

---------------------------------------------------------------------------
(* The pure functions applied to sample inputs *)

MaxPoints == 3

\* values a caller can pass where a coordinate is expected
JsSamples ==
    {Num(-181), Num(-180), Num(-91), Num(-90), Num(0), Num(90), Num(91), Num(180),
     Num(181), NaN, PosInf, NegInf, Str("invalid"), Undefined, Null}

\* raw points as the sun-marker tests build them
SamplePoints == [x : {Num(0), Num(5)}, y : {Num(0), Num(10)}, dayOfYear : {150}]
SamplePointLists == UNION {[1..n -> SamplePoints] : n \in 0..MaxPoints}

\* summer time is in force around mid-year only
SummerTime(ord) == 4 * ord > YearLen /\ 4 * ord < 3 * YearLen

\* local dates over the whole year, at the start, middle and end of the day
FnDates ==
    {Date(ord, hour, 0) : ord \in 1..YearLen, hour \in {0, 12, 23}}
        \cup {dt \in {Date(ord, hour, shift) :
                        ord \in 1..YearLen, hour \in {0, 23}, shift \in {-1, 1}} :
                    SummerTime(dt.ord)}

\* today's point appended to the full table, the whole list transformed at once
JointTransform(table, date) ==
    LET allCoords == AllCoordinates(table)
        todayCoords == CoordinatesForDate(table, date)
        svgCoords == convertToSVGCoordinates(Append(allCoords, todayCoords.v))
    IN  IF ~todayCoords.ok THEN todayCoords
        ELSE Ok([analemmaCoords |-> SubSeq(svgCoords, 1, Len(allCoords)),
                 todayCombined |-> svgCoords[Len(svgCoords)]])

\* latitudes on both sides of the equator, on it and just off it
LatitudeSamples ==
    {Num(-90), Num(-45), Num(-10), Rat(-1, 10000), Num(0), Rat(1, 10000), Num(10),
     Num(45), Num(90)}

\* transformed points as convertToSVGCoordinates returns them
SvgSamplePoints ==
    [x : {Num(0)}, y : {Num(0)}, dayOfYear : {150},
     svgX : {Num(30), Num(370)}, svgY : {Num(30), Num(100)}]
SvgSampleLists == UNION {[1..n -> SvgSamplePoints] : n \in 0..MaxPoints}

\* transformed points of different days, handed over in any order
PathSamplePoints ==
    [x : {Num(0)}, y : {Num(0)}, dayOfYear : 1..MaxPoints,
     svgX : {Num(30), Num(370)}, svgY : {Num(30)}]
PathSampleLists == UNION {[1..n -> PathSamplePoints] : n \in 0..MaxPoints}

\* a screen rule that tests the denied permission before the error flag
ScreenDeniedFirst(st) ==
    IF st.isLoading THEN "loading"
    ELSE IF st.location = Null /\ st.permissionState = Str("denied") THEN "denied"
    ELSE IF st.hasError /\ st.location = Null THEN "error"
    ELSE IF st.location # Null THEN "main"
    ELSE "prompt"

\* StatusLogic.getActiveScreen
getActiveScreen(st) ==
    IF st.isLoading THEN "loading"
    ELSE IF st.hasError /\ st.location = Null THEN "error"
    ELSE IF st.location # Null THEN "main"
    ELSE IF st.permissionState = Str("denied") THEN "denied"
    ELSE "prompt"

\* application states as the screen logic sees them
ScreenStates ==
    [isLoading : BOOLEAN, hasError : BOOLEAN, location : {Null, Loc(40, -74)},
     permissionState : {Null, Str("granted"), Str("denied"), Str("prompt")}]

\* longitudes across the whole range, and the zones' UTC offsets in hours
LongitudeSamples ==
    {Num(-180), Num(-123), Rat(-37003, 500), Num(0), Rat(15, 2), Num(151), Num(180)}
ZoneOffsets == {-8, 0, 10}

FnCalls ==
    [fn : {"validateCoordinates"}, latitude : JsSamples, longitude : JsSamples]
        \cup [fn : {"convertToSVGCoordinates"}, coordinates : SamplePointLists]
        \cup [fn : {"jointTransform"}, date : FnDates]
        \cup [fn : {"getAnalemmaDirection"}, latitude : LatitudeSamples \cup {NaN}]
        \cup [fn : {"getAnalemmaCoordinatesForDate"}, asset : Assets, date : FnDates]
        \cup [fn : {"getAllAnalemmaCoordinates"}, asset : Assets]
        \cup [fn : {"generateSVGPath"}, coordinates : PathSampleLists]
        \cup [fn : {"calculateDirection"}, latitude : LatitudeSamples,
               other : LatitudeSamples]
        \cup [fn : {"getDayOfYear"}, date : FnDates]
        \cup [fn : {"getActiveScreen"}, state : ScreenStates]
        \cup [fn : {"calculateSolarNoon"}, longitude : LongitudeSamples, date : FnDates,
               offset : ZoneOffsets]
        \cup [fn : {"applyHemisphereCorrection"}, coordinates : SvgSampleLists,
               latitude : {Num(-10), Rat(-1, 10000), Num(0), Num(10)}]

ApplyValidateCoordinates ==
    /\ call.fn = "validateCoordinates"
    /\ ret = Null
    /\ ret' = Ok(validateCoordinates(call.latitude, call.longitude))
    /\ UNCHANGED <<call, loaderVars, appVars>>

ApplyConvertToSVGCoordinates ==
    /\ call.fn = "convertToSVGCoordinates"
    /\ ret = Null
    /\ ret' = Ok(convertToSVGCoordinates(call.coordinates))
    /\ UNCHANGED <<call, loaderVars, appVars>>

ApplyJointTransform ==
    /\ call.fn = "jointTransform"
    /\ ret = Null
    /\ ret' = JointTransform(generateAnalemmaData, call.date)
    /\ UNCHANGED <<call, loaderVars, appVars>>

ApplyGetAnalemmaDirection ==
    /\ call.fn = "getAnalemmaDirection"
    /\ ret = Null
    /\ ret' = Ok(getAnalemmaDirection(call.latitude))
    /\ UNCHANGED <<call, loaderVars, appVars>>

ApplyHemisphereCorrection ==
    /\ call.fn = "applyHemisphereCorrection"
    /\ ret = Null
    /\ ret' = Ok(applyHemisphereCorrection(call.coordinates, call.latitude))
    /\ UNCHANGED <<call, loaderVars, appVars>>

\* getAnalemmaCoordinatesForDate with the table the asset holds loaded
ApplyCoordinatesForDate ==
    /\ call.fn = "getAnalemmaCoordinatesForDate"
    /\ ret = Null
    /\ ret' = CoordinatesForDate(AssetTable(call.asset), call.date)
    /\ UNCHANGED <<call, loaderVars, appVars>>

\* getAllAnalemmaCoordinates with the table the asset holds loaded
ApplyAllCoordinates ==
    /\ call.fn = "getAllAnalemmaCoordinates"
    /\ ret = Null
    /\ ret' = Ok(AllCoordinates(AssetTable(call.asset)))
    /\ UNCHANGED <<call, loaderVars, appVars>>

\* generateSVGPath(coordinates): the path, and the argument array after the call
ApplyGenerateSVGPath ==
    /\ call.fn = "generateSVGPath"
    /\ ret = Null
    /\ ret' = Ok([pathString |-> generateSVGPath(call.coordinates),
                  coordinates |-> SortCopy(call.coordinates).coordinates])
    /\ UNCHANGED <<call, loaderVars, appVars>>

\* calculateDirection for the latitudes of two visualization requests
ApplyCalculateDirection ==
    /\ call.fn = "calculateDirection"
    /\ ret = Null
    /\ ret' = Ok(<<calculateDirection(call.latitude), calculateDirection(call.other)>>)
    /\ UNCHANGED <<call, loaderVars, appVars>>

ApplyGetDayOfYear ==
    /\ call.fn = "getDayOfYear"
    /\ ret = Null
    /\ ret' = getDayOfYear(call.date)
    /\ UNCHANGED <<call, loaderVars, appVars>>

ApplyCalculateSolarNoon ==
    /\ call.fn = "calculateSolarNoon"
    /\ ret = Null
    /\ ret' = calculateSolarNoon(call.longitude, call.date, call.offset)
    /\ UNCHANGED <<call, loaderVars, appVars>>

ApplyGetActiveScreen ==
    /\ call.fn = "getActiveScreen"
    /\ ret = Null
    /\ ret' = Ok(getActiveScreen(call.state))
    /\ UNCHANGED <<call, loaderVars, appVars>>

FnInit ==
    /\ call \in FnCalls
    /\ ret = Null
    /\ analemmaCacheData = Null
    /\ resource = [status |-> "ok", asset |-> "canonical"]
    /\ request = Null
    /\ fetchCount = 0
    /\ pc = [c \in Callers |-> "idle"]
    /\ frame = [c \in Callers |-> NoFrame]
    /\ loadOut = [c \in Callers |-> Null]
    /\ result = [c \in Callers |-> Null]
    /\ calls = [c \in Callers |-> 0]
    /\ AppIdle

FnNext ==
    \/ ApplyValidateCoordinates
    \/ ApplyConvertToSVGCoordinates
    \/ ApplyJointTransform
    \/ ApplyGetAnalemmaDirection
    \/ ApplyCoordinatesForDate
    \/ ApplyAllCoordinates
    \/ ApplyCalculateDirection
    \/ ApplyGenerateSVGPath
    \/ ApplyGetDayOfYear
    \/ ApplyCalculateSolarNoon
    \/ ApplyGetActiveScreen
    \/ ApplyHemisphereCorrection

FnSpec == FnInit /\ [][FnNext]_vars

---------------------------------------------------------------------------
(* The application controllers: SimplifiedAnalemmaPWA and AnalemmaPWA *)

MaxTasks == 2
MaxOps == 2
MaxLoads == 2

Tasks == 1..MaxTasks
FreeTask == [pc |-> "free", location |-> Null]
Pending(taskPc, location) == [pc |-> taskPc, location |-> location]

\* new AppState(): the fields the controllers read and write
InitialState ==
    [location |-> Null, permissionState |-> Null, isLoading |-> FALSE,
     hasError |-> FALSE, errorMessage |-> Null]

\* AppState.update: this.state = {...this.state, ...updates}
Update(st, updates) ==
    [f \in (DOMAIN st) \cup (DOMAIN updates) |->
        IF f \in DOMAIN updates THEN updates[f] ELSE st[f]]

\* JSON.stringify then JSON.parse of a number: NaN and infinities become null
JsonNumber(v) == IF v.k = "num" THEN v ELSE Null
JsonRoundTrip(location) ==
    [latitude |-> JsonNumber(location.latitude),
     longitude |-> JsonNumber(location.longitude)]

\* LocationService.isValidLocation
isValidLocation(location) ==
    /\ location # Null
    /\ TypeofNumber(location.latitude)
    /\ TypeofNumber(location.longitude)
    /\ JsGe(location.latitude, Num(-90)) /\ JsLe(location.latitude, Num(90))
    /\ JsGe(location.longitude, Num(-180)) /\ JsLe(location.longitude, Num(180))

\* positions getCurrentPosition may deliver; the last is out of range
GeoPositions == {Loc(49, -123), Loc(-34, 151), Loc(200, -74)}
GeoErrorCodes == {"PERMISSION_DENIED", "POSITION_UNAVAILABLE", "TIMEOUT"}

\* the message each wrapper gives a geolocation error
GeoErrorMessage(kind, code) ==
    IF kind = "simple"
    THEN CASE code = "PERMISSION_DENIED" -> "User denied permission"
           [] code = "POSITION_UNAVAILABLE" -> "Location unavailable"
           [] code = "TIMEOUT" -> "Location request timed out"
    ELSE CASE code = "PERMISSION_DENIED" -> "Location access denied by user"
           [] code = "POSITION_UNAVAILABLE" -> "Location information unavailable"
           [] code = "TIMEOUT" -> "Location request timed out"

\* error.message.includes('denied')
IncludesDenied(message) ==
    message \in {"User denied permission", "Location access denied by user"}

\* how getCurrentPosition can answer under permission `p`
GeoOutcomes(kind, p) ==
    IF p = "denied" THEN {Throw(GeoErrorMessage(kind, "PERMISSION_DENIED"))}
    ELSE {Ok(l) : l \in GeoPositions}
            \cup {Throw(GeoErrorMessage(kind, c)) :
                      c \in IF p = "prompt" THEN GeoErrorCodes
                            ELSE GeoErrorCodes \ {"PERMISSION_DENIED"}}

\* the permission after the user has answered the browser's prompt
PermAfter(p, outcome) ==
    IF outcome.ok THEN "granted"
    ELSE IF IncludesDenied(outcome.message) THEN "denied" ELSE p

\* what updateAllDisplays hands to calculateSolarNoon / the visualization
DisplaysInput(st) == IF st.location = Null THEN {} ELSE {st.location}

MsGettingLocation == "Getting your location..."

\* a start-up that asks for the location unless permission is denied
AutoRequestUnlessDenied(permissionState) == permissionState # "denied"

\* if (permissionState === 'granted') await this.requestLocation()
AutoRequest(permissionState) == permissionState = "granted"

\* SimplifiedAnalemmaPWA.initialize up to its first await
SimpleInitialize ==
    /\ app.kind = "simple"
    /\ ~app.started
    /\ app' = [app EXCEPT !.started = TRUE]
    /\ \E t \in Tasks :
          /\ tasks[t] = FreeTask
          /\ \A u \in Tasks : u < t => tasks[u] # FreeTask
          /\ LET savedLocation == IF isValidLocation(storage) THEN storage ELSE Null
             IN  IF savedLocation # Null
                 THEN /\ state' = Update(state, [location |-> savedLocation])
                      /\ tasks' = [tasks EXCEPT ![t] = Pending("s_init_perm_saved", Null)]
                 ELSE /\ state' = state
                      /\ tasks' = [tasks EXCEPT ![t] = Pending("s_init_perm", Null)]
    /\ UNCHANGED <<storage, perm, pipeline, loaderVars, fnVars, store, net, clock>>

\* SimplifiedAnalemmaPWA.requestLocation up to its first await
SimpleRequestLocation ==
    /\ app.kind = "simple"
    /\ app.started
    /\ app.ops < MaxOps
    /\ app' = [app EXCEPT !.ops = @ + 1]
    /\ \E t \in Tasks :
          /\ tasks[t] = FreeTask
          /\ \A u \in Tasks : u < t => tasks[u] # FreeTask
          /\ tasks' = [tasks EXCEPT ![t] = Pending("s_position", Null)]
    /\ state' = Update(state, [isLoading |-> TRUE,
                               loadingMessage |-> Str(MsGettingLocation)])
    /\ UNCHANGED <<storage, perm, pipeline, loaderVars, fnVars, store, net, clock>>

\* a catch block that also forgets the location held so far
SimpleCatchClearsLocation(st, message) ==
    Update(st, [isLoading |-> FALSE, hasError |-> TRUE, errorMessage |-> Str(message),
                location |-> Null,
                permissionState |-> IF IncludesDenied(message) THEN Str("denied")
                                    ELSE st.permissionState])

\* the catch block of SimplifiedAnalemmaPWA.requestLocation
SimpleCatch(st, message) ==
    Update(st, [isLoading |-> FALSE, hasError |-> TRUE, errorMessage |-> Str(message),
                permissionState |-> IF IncludesDenied(message) THEN Str("denied")
                                    ELSE st.permissionState])

\* a pending activation of SimplifiedAnalemmaPWA continues after its await
SimpleResume(t) ==
    /\ app.kind = "simple"
    /\ tasks[t] # FreeTask
    /\ LET task == tasks[t] IN
       CASE task.pc = "s_init_perm_saved" ->
              /\ state' = Update(state, [permissionState |-> Str(perm)])
              /\ pipeline' = pipeline \cup DisplaysInput(state')
              /\ tasks' = [tasks EXCEPT ![t] = FreeTask]
              /\ UNCHANGED <<storage, perm>>
         [] task.pc = "s_init_perm" ->
              /\ IF AutoRequest(perm)
                 THEN /\ state' = Update(Update(state, [permissionState |-> Str(perm)]),
                                         [isLoading |-> TRUE,
                                          loadingMessage |-> Str(MsGettingLocation)])
                      /\ tasks' = [tasks EXCEPT ![t] = Pending("s_position", Null)]
                 ELSE /\ state' = Update(state, [permissionState |-> Str(perm)])
                      /\ tasks' = [tasks EXCEPT ![t] = FreeTask]
              /\ UNCHANGED <<storage, perm, pipeline>>
         [] task.pc = "s_position" ->
              \E outcome \in GeoOutcomes("simple", perm) :
                /\ perm' = PermAfter(perm, outcome)
                /\ IF outcome.ok
                   THEN /\ storage' = IF isValidLocation(outcome.v)
                                      THEN JsonRoundTrip(outcome.v) ELSE storage
                        /\ tasks' = [tasks EXCEPT ![t] = Pending("s_perm", outcome.v)]
                        /\ state' = state
                   ELSE /\ state' = SimpleCatch(state, outcome.message)
                        /\ tasks' = [tasks EXCEPT ![t] = FreeTask]
                        /\ storage' = storage
                /\ UNCHANGED pipeline
         [] task.pc = "s_perm" ->
              LET validation == validateCoordinates(task.location.latitude,
                                                    task.location.longitude)
              IN  /\ IF ~validation.isValid
                     THEN /\ state' = SimpleCatch(state, validation.error)
                          /\ pipeline' = pipeline
                     ELSE /\ state' = Update(state,
                                    [location |-> task.location,
                                     permissionState |-> Str(perm),
                                     isLoading |-> FALSE, hasError |-> FALSE,
                                     errorMessage |-> Null])
                          /\ pipeline' = pipeline \cup DisplaysInput(state')
                  /\ tasks' = [tasks EXCEPT ![t] = FreeTask]
                  /\ UNCHANGED <<storage, perm>>
    /\ UNCHANGED <<app, loaderVars, fnVars, store, net, clock>>

\* AnalemmaPWA.showError
showError(st, message) ==
    [st EXCEPT !.hasError = TRUE, !.errorMessage = Str(message), !.isLoading = FALSE]

\* the location the failure dialog offers (Vancouver, BC)
TestLocation == Loc(49, -123)

\* AnalemmaPWA.setLocation up to its await: the state it leaves, whether it
\* waits for the permission state, and what it hands to the displays
setLocation(st, location) ==
    LET validation == validateCoordinates(location.latitude, location.longitude)
        accepted == [st EXCEPT !.location = location, !.isLoading = FALSE,
                               !.hasError = FALSE]
    IN  IF ~validation.isValid
        THEN [state |-> showError(st, "Failed to process location: " \o validation.error),
              waits |-> FALSE, displays |-> {}]
        ELSE IF accepted.permissionState = Null
        THEN [state |-> accepted, waits |-> TRUE, displays |-> {}]
        ELSE [state |-> accepted, waits |-> FALSE, displays |-> DisplaysInput(accepted)]

\* the state, the pipeline and activation t after a setLocation(location) call
ApplySetLocation(t, st, location) ==
    LET r == setLocation(st, location)
    IN  /\ state' = r.state
        /\ pipeline' = pipeline \cup r.displays
        /\ tasks' = [tasks EXCEPT ![t] =
                        IF r.waits THEN Pending("l_set_perm", location) ELSE FreeTask]

\* AnalemmaPWA.initialize up to its first await; a saved location older
\* than a day is removed
LegacyInitialize ==
    /\ app.kind = "legacy"
    /\ ~app.started
    /\ app' = [app EXCEPT !.started = TRUE]
    /\ \E t \in Tasks, expired \in BOOLEAN :
          /\ tasks[t] = FreeTask
          /\ \A u \in Tasks : u < t => tasks[u] # FreeTask
          /\ storage = Null => ~expired
          /\ IF storage = Null \/ expired
             THEN /\ storage' = Null
                  /\ state' = state
                  /\ tasks' = [tasks EXCEPT ![t] = Pending("l_init_perm", Null)]
             ELSE /\ storage' = storage
                  /\ state' = [state EXCEPT !.location = storage]
                  /\ tasks' = [tasks EXCEPT ![t] = Pending("l_init_perm_saved", storage)]
    /\ UNCHANGED <<perm, pipeline, loaderVars, fnVars, store, net, clock>>

\* AnalemmaPWA.requestLocation up to its first await
LegacyRequestLocation ==
    /\ app.kind = "legacy"
    /\ app.started
    /\ app.ops < MaxOps
    /\ app' = [app EXCEPT !.ops = @ + 1]
    /\ \E t \in Tasks :
          /\ tasks[t] = FreeTask
          /\ \A u \in Tasks : u < t => tasks[u] # FreeTask
          /\ tasks' = [tasks EXCEPT ![t] = Pending("l_position", Null)]
    /\ state' = [state EXCEPT !.isLoading = TRUE, !.hasError = FALSE]
    /\ UNCHANGED <<storage, perm, pipeline, loaderVars, fnVars, store, net, clock>>

\* AnalemmaPWA.setLocation(location) called on the controller
LegacySetLocation(location) ==
    /\ app.kind = "legacy"
    /\ app.started
    /\ app.ops < MaxOps
    /\ app' = [app EXCEPT !.ops = @ + 1]
    /\ \E t \in Tasks :
          /\ tasks[t] = FreeTask
          /\ \A u \in Tasks : u < t => tasks[u] # FreeTask
          /\ ApplySetLocation(t, state, location)
    /\ UNCHANGED <<storage, perm, loaderVars, fnVars, store, net, clock>>

\* a pending activation of AnalemmaPWA continues after its await
LegacyResume(t) ==
    /\ app.kind = "legacy"
    /\ tasks[t] # FreeTask
    /\ LET task == tasks[t]
           known == [state EXCEPT !.permissionState = Str(perm)]
       IN
       CASE task.pc = "l_init_perm_saved" ->
              /\ ApplySetLocation(t, known, task.location)
              /\ UNCHANGED <<storage, perm>>
         [] task.pc = "l_init_perm" ->
              /\ IF perm = "granted"
                 THEN /\ state' = [known EXCEPT !.isLoading = TRUE, !.hasError = FALSE]
                      /\ tasks' = [tasks EXCEPT ![t] = Pending("l_position", Null)]
                 ELSE /\ state' = known
                      /\ tasks' = [tasks EXCEPT ![t] = FreeTask]
              /\ UNCHANGED <<storage, perm, pipeline>>
         [] task.pc = "l_position" ->
              \E outcome \in GeoOutcomes("legacy", perm), useTestLocation \in BOOLEAN :
                /\ perm' = PermAfter(perm, outcome)
                /\ (outcome.ok \/ IncludesDenied(outcome.message)) => ~useTestLocation
                /\ IF outcome.ok
                   THEN /\ storage' = JsonRoundTrip(outcome.v)
                        /\ tasks' = [tasks EXCEPT ![t] = Pending("l_perm", outcome.v)]
                        /\ UNCHANGED <<state, pipeline>>
                   ELSE /\ storage' = storage
                        /\ LET failed == [state EXCEPT !.isLoading = FALSE] IN
                           IF IncludesDenied(outcome.message)
                           THEN /\ state' = [failed EXCEPT !.permissionState = Str("denied")]
                                /\ tasks' = [tasks EXCEPT ![t] = FreeTask]
                                /\ UNCHANGED pipeline
                           ELSE IF useTestLocation
                           THEN ApplySetLocation(t, failed, TestLocation)
                           ELSE /\ state' = showError(failed,
                                        "Location error: " \o outcome.message)
                                /\ tasks' = [tasks EXCEPT ![t] = FreeTask]
                                /\ UNCHANGED pipeline
         [] task.pc = "l_perm" ->
              /\ ApplySetLocation(t, known, task.location)
              /\ UNCHANGED <<storage, perm>>
         [] task.pc = "l_set_perm" ->
              /\ state' = known
              /\ pipeline' = pipeline \cup DisplaysInput(known)
              /\ tasks' = [tasks EXCEPT ![t] = FreeTask]
              /\ UNCHANGED <<storage, perm>>
    /\ UNCHANGED <<app, loaderVars, fnVars, store, net, clock>>

\* the minute timer: the solar-noon time is recomputed for the stored location
TimerTick ==
    /\ app.kind \in {"simple", "legacy"}
    /\ state.location # Null
    /\ state.location \notin pipeline
    /\ pipeline' = pipeline \cup {state.location}
    /\ UNCHANGED <<app, state, storage, perm, tasks, loaderVars, fnVars, store, net, clock>>

\* the page is loaded again: a new controller; localStorage and the
\* browser's permission survive
Reload ==
    /\ app.kind \in {"simple", "legacy"}
    /\ app.loads < MaxLoads
    /\ app' = [app EXCEPT !.started = FALSE, !.loads = @ + 1]
    /\ state' = InitialState
    /\ tasks' = [t \in Tasks |-> FreeTask]
    /\ UNCHANGED <<storage, perm, pipeline, loaderVars, fnVars, store, net, clock>>

AppInit ==
    /\ app \in [kind : {"simple", "legacy"}, started : {FALSE}, loads : {1}, ops : {0}]
    /\ state = InitialState
    /\ storage = Null
    /\ perm \in {"prompt", "granted", "denied"}
    /\ tasks = [t \in Tasks |-> FreeTask]
    /\ pipeline = {}
    /\ store = Null
    /\ net = Null
    /\ clock = Null
    /\ analemmaCacheData = Null
    /\ resource = [status |-> "ok", asset |-> "canonical"]
    /\ request = Null
    /\ fetchCount = 0
    /\ pc = [c \in Callers |-> "idle"]
    /\ frame = [c \in Callers |-> NoFrame]
    /\ loadOut = [c \in Callers |-> Null]
    /\ result = [c \in Callers |-> Null]
    /\ calls = [c \in Callers |-> 0]
    /\ FnIdle

AppNext ==
    \/ SimpleInitialize
    \/ SimpleRequestLocation
    \/ \E t \in Tasks : SimpleResume(t)
    \/ LegacyInitialize
    \/ LegacyRequestLocation
    \/ \E location \in GeoPositions : LegacySetLocation(location)
    \/ \E t \in Tasks : LegacyResume(t)
    \/ TimerTick
    \/ Reload

AppSpec == AppInit /\ [][AppNext]_vars

---------------------------------------------------------------------------
(* AppState: the observable state container (update / subscribe / notify) *)

MaxListeners == 3

\* the functions a client may subscribe
Listeners == 1 .. MaxListeners

\* what a listener does when it is invoked: it returns, it throws, or it
\* calls its own unsubscribe function and returns (a one-shot listener)
ListenerBody(l) ==
    CASE l % 3 = 1 -> "returns"
      [] l % 3 = 2 -> "throws"
      [] OTHER     -> "unsubscribes"

\* new AppState(): the constructor's default state
StoreInitialState ==
    [location |-> Null, permissionState |-> Null, isLoading |-> FALSE,
     hasError |-> FALSE, errorMessage |-> Null, isOnline |-> TRUE,
     currentDate |-> Date(1, 12, 0)]

\* the partial states handed to update
StoreUpdates ==
    { [isLoading |-> TRUE],
      [isLoading |-> FALSE],
      [hasError |-> TRUE, errorMessage |-> Str("Test error")] }

\* Array.prototype.indexOf: the first position holding l, 0 for -1
IndexOf(list, l) ==
    IF \E i \in 1 .. Len(list) : list[i] = l
    THEN CHOOSE i \in 1 .. Len(list) :
             list[i] = l /\ \A j \in 1 .. (i - 1) : list[j] # l
    ELSE 0

\* Array.prototype.splice(index, 1)
Splice(list, index) ==
    [i \in 1 .. (Len(list) - 1) |-> IF i < index THEN list[i] ELSE list[i + 1]]

\* the unsubscribe function subscribe returned for l
Unsubscribed(list, l) ==
    IF IndexOf(list, l) > 0 THEN Splice(list, IndexOf(list, l)) ELSE list

\* notify's try/catch around each call: whether a listener's error leaves
\* notify (the catch clause only logs it)
ListenerErrorPropagates(body) == FALSE

\* notify: this.listeners.forEach over the live array; i is forEach's index,
\* len the length it read before the first call; an index the array no longer
\* has is not visited
RECURSIVE notify(_, _, _, _, _, _)
notify(list, i, len, newState, oldState, log) ==
    IF i > len \/ i > Len(list)
    THEN [listeners |-> list, log |-> log, outcome |-> Ok(Undefined)]
    ELSE LET l == list[i]
             entry == [listener |-> l, newState |-> newState,
                       oldState |-> oldState,
                       threw |-> ListenerBody(l) = "throws"]
             rest == IF ListenerBody(l) = "unsubscribes"
                     THEN Unsubscribed(list, l) ELSE list
         IN  IF ListenerErrorPropagates(ListenerBody(l))
             THEN [listeners |-> rest, log |-> Append(log, entry),
                   outcome |-> Throw("listener error")]
             ELSE notify(rest, i + 1, len, newState, oldState, Append(log, entry))

Range(list) == {list[i] : i \in 1 .. Len(list)}

\* subscribe(listener): this.listeners.push(listener)
StoreSubscribe(l) ==
    /\ l \notin Range(store.listeners)
    /\ store' = [store EXCEPT !.listeners = Append(@, l),
                              !.cancelled = @ \ {l}]
    /\ UNCHANGED <<loaderVars, fnVars, app, state, storage, perm, tasks, pipeline, net, clock>>

\* a call of the unsubscribe function subscribe returned for l
StoreUnsubscribe(l) ==
    /\ l \in Range(store.listeners)
    /\ store' = [store EXCEPT !.listeners = Unsubscribed(@, l),
                              !.cancelled = @ \cup {l}]
    /\ UNCHANGED <<loaderVars, fnVars, app, state, storage, perm, tasks, pipeline, net, clock>>

\* update(updates): merge, then notify(this.state, oldState)
StoreUpdate(updates) ==
    LET oldState == store.state
        newState == Update(store.state, updates)
        done == notify(store.listeners, 1, Len(store.listeners), newState,
                       oldState, <<>>)
    IN  /\ store' = [state |-> newState,
                     listeners |-> done.listeners,
                     cancelled |-> store.cancelled \cup
                                     (Range(store.listeners) \ Range(done.listeners)),
                     last |-> [updates |-> updates,
                               oldState |-> oldState,
                               subscribed |-> store.listeners,
                               cancelled |-> store.cancelled,
                               log |-> done.log,
                               outcome |-> done.outcome]]
        /\ UNCHANGED <<loaderVars, fnVars, app, state, storage, perm, tasks, pipeline, net, clock>>

StoreInit ==
    /\ store = [state |-> StoreInitialState, listeners |-> <<>>,
                cancelled |-> {}, last |-> Null]
    /\ app = [kind |-> "none"]
    /\ state = Null
    /\ storage = Null
    /\ perm = "prompt"
    /\ tasks = <<>>
    /\ pipeline = {}
    /\ net = Null
    /\ clock = Null
    /\ analemmaCacheData = Null
    /\ resource = [status |-> "ok", asset |-> "canonical"]
    /\ request = Null
    /\ fetchCount = 0
    /\ pc = [c \in Callers |-> "idle"]
    /\ frame = [c \in Callers |-> NoFrame]
    /\ loadOut = [c \in Callers |-> Null]
    /\ result = [c \in Callers |-> Null]
    /\ calls = [c \in Callers |-> 0]
    /\ FnIdle

StoreNext ==
    \/ \E l \in Listeners : StoreSubscribe(l)
    \/ \E l \in Listeners : StoreUnsubscribe(l)
    \/ \E updates \in StoreUpdates : StoreUpdate(updates)

StoreSpec == StoreInit /\ [][StoreNext]_vars

---------------------------------------------------------------------------
(* Connectivity: the online/offline handlers and their connectivity checks *)

MaxEvents == 4
MaxChecks == 2

\* whether the handler of an event starts a connectivity check: the
\* SimplifiedAnalemmaPWA callback does so only `if (isOnline)`, AnalemmaPWA's
\* two listeners both call updateOnlineStatusWithConnectivityCheck
StartsCheck(kind, event) == kind = "legacy" \/ event = "online"

\* the state after the handler of `event` has run up to its await
Handled(n, event) ==
    [n EXCEPT !.isOnline = (event = "online"),
              !.checks = IF StartsCheck(n.kind, event) THEN Append(@, event) ELSE @,
              !.lastEvent = event,
              !.events = @ + 1]

\* an event can be dispatched while the event and check budgets last
EventAllowed(n, event) ==
    /\ n.events < MaxEvents
    /\ StartsCheck(n.kind, event) => Len(n.checks) < MaxChecks

\* window's 'online' event is dispatched
NetOnlineEvent ==
    /\ EventAllowed(net, "online")
    /\ net' = Handled(net, "online")
    /\ UNCHANGED <<loaderVars, fnVars, app, state, storage, perm, tasks, pipeline, store, clock>>

\* window's 'offline' event is dispatched
NetOfflineEvent ==
    /\ EventAllowed(net, "offline")
    /\ net' = Handled(net, "offline")
    /\ UNCHANGED <<loaderVars, fnVars, app, state, storage, perm, tasks, pipeline, store, clock>>

\* the i-th pending check's fetch settles and its handler continues:
\* update({isOnline: actuallyOnline}) / updateOnlineStatus(isActuallyOnline)
NetCheckSettle(i, actuallyOnline) ==
    /\ i \in 1..Len(net.checks)
    /\ net' = [net EXCEPT !.isOnline = actuallyOnline,
                          !.checks = Splice(@, i),
                          !.settled = net.checks[i]]
    /\ UNCHANGED <<loaderVars, fnVars, app, state, storage, perm, tasks, pipeline, store, clock>>

\* after construction: AppState's isOnline default and no check pending, or
\* AnalemmaPWA's updateOnlineStatus(navigator.onLine) and its first check
NetInit ==
    /\ net \in {[kind |-> "simple", isOnline |-> TRUE, checks |-> <<>>,
                 lastEvent |-> "none", events |-> 0, settled |-> "none"]}
               \cup {[kind |-> "legacy", isOnline |-> onLine, checks |-> <<"start">>,
                      lastEvent |-> "none", events |-> 0, settled |-> "none"] :
                        onLine \in BOOLEAN}
    /\ clock = Null
    /\ store = Null
    /\ app = [kind |-> "none"]
    /\ state = Null
    /\ storage = Null
    /\ perm = "prompt"
    /\ tasks = <<>>
    /\ pipeline = {}
    /\ analemmaCacheData = Null
    /\ resource = [status |-> "ok", asset |-> "canonical"]
    /\ request = Null
    /\ fetchCount = 0
    /\ pc = [c \in Callers |-> "idle"]
    /\ frame = [c \in Callers |-> NoFrame]
    /\ loadOut = [c \in Callers |-> Null]
    /\ result = [c \in Callers |-> Null]
    /\ calls = [c \in Callers |-> 0]
    /\ FnIdle

NetNext ==
    \/ NetOnlineEvent
    \/ NetOfflineEvent
    \/ \E i \in 1..MaxChecks, actuallyOnline \in BOOLEAN : NetCheckSettle(i, actuallyOnline)

NetSpec == NetInit /\ [][NetNext]_vars

---------------------------------------------------------------------------
(* The date-check timer of the two controllers *)

MaxClock == 7
MonthLen == 3

\* calendar days are counted from the day the page was loaded (day 1);
\* Date.prototype.getDate: the day of the month
getDate(day) == ((day - 1) % MonthLen) + 1

\* new Date(y, m, d).getTime(): one value per calendar day
getTime(day) == day

\* the test the timer callback makes: SimplifiedAnalemmaPWA compares
\* getDate(), AnalemmaPWA the midnights of the two days
DateChanged(kind, now, currentDate) ==
    IF kind = "simple" THEN getDate(now) # getDate(currentDate)
    ELSE getTime(now) # getTime(currentDate)

\* time passes; no callback runs meanwhile (a suspended page, a sleeping device)
ClockAdvance ==
    /\ \E day \in (clock.now + 1)..MaxClock :
          clock' = [clock EXCEPT !.now = day, !.last = "advance"]
    /\ UNCHANGED <<loaderVars, fnVars, app, state, storage, perm, tasks, pipeline,
                 store, net>>

\* a location is accepted: updateAllDisplays draws the marker for currentDate
ClockLocation ==
    /\ ~clock.location
    /\ clock' = [clock EXCEPT !.location = TRUE, !.shown = clock.currentDate,
                              !.last = "location"]
    /\ UNCHANGED <<loaderVars, fnVars, app, state, storage, perm, tasks, pipeline,
                 store, net>>

\* the minute timer's date check runs
DateCheckTick ==
    /\ IF DateChanged(clock.kind, clock.now, clock.currentDate)
       THEN clock' = [clock EXCEPT !.currentDate = clock.now,
                                   !.shown = IF clock.location THEN clock.now ELSE @,
                                   !.last = "tick"]
       ELSE clock' = [clock EXCEPT !.last = "tick"]
    /\ UNCHANGED <<loaderVars, fnVars, app, state, storage, perm, tasks, pipeline,
                 store, net>>

\* construction: currentDate is new Date(); nothing is shown yet
ClockInit ==
    /\ clock \in [kind : {"simple", "legacy"}, now : {1}, currentDate : {1},
                  location : {FALSE}, shown : {0}, last : {"init"}]
    /\ net = Null
    /\ store = Null
    /\ app = [kind |-> "none"]
    /\ state = Null
    /\ storage = Null
    /\ perm = "prompt"
    /\ tasks = <<>>
    /\ pipeline = {}
    /\ analemmaCacheData = Null
    /\ resource = [status |-> "ok", asset |-> "canonical"]
    /\ request = Null
    /\ fetchCount = 0
    /\ pc = [c \in Callers |-> "idle"]
    /\ frame = [c \in Callers |-> NoFrame]
    /\ loadOut = [c \in Callers |-> Null]
    /\ result = [c \in Callers |-> Null]
    /\ calls = [c \in Callers |-> 0]
    /\ FnIdle

ClockNext ==
    \/ ClockAdvance
    \/ ClockLocation
    \/ DateCheckTick

ClockSpec == ClockInit /\ [][ClockNext]_vars

---------------------------------------------------------------------------
(* Properties of the table loader (LoadSpec) *)

LoadPending == {c \in Callers : pc[c] \in {"awaitFetch", "awaitJson"}}

\* C1: callers that invoke loadAnalemmaData before any load has completed
\* share one in-flight load, so at most one fetch has been issued while no
\* load has completed yet.
C1_OneFetchBeforeCompletion ==
    (\A c \in Callers : pc[c] \in {"idle", "awaitFetch", "awaitJson"} /\ result[c] = Null)
        => fetchCount <= 1

\* C6: once the cache holds the table, a load call issues no fetch and
\* returns the cached table, and the cached table never changes afterwards.
C6_LoadedTableIsReused ==
    [][analemmaCacheData # Null =>
          /\ analemmaCacheData' = analemmaCacheData
          /\ \A c \in Callers :
                calls'[c] # calls[c] =>
                    /\ fetchCount' = fetchCount
                    /\ loadOut'[c] = Ok(analemmaCacheData)]_vars

\* C6 witness: a second call completed with the table after a single fetch
C6_Witness ==
    \E c \in Callers :
        /\ calls[c] = 2
        /\ pc[c] = "done"
        /\ result[c] = Ok(generateAnalemmaData)
        /\ fetchCount = 1

LoadFailsNow(c) == pc[c] = "awaitFetch" /\ loadOut'[c] = Throw(MsLoadFailed)

\* caller c enters loadAnalemmaData in this step
LoadEntersNow(c) == calls'[c] # calls[c]

\* what holds of the calls made while the cache is empty, failures or not:
\* such a call issues a new fetch, and a fetch that succeeds returns the table
RetryAfterFailure ==
    \A c \in Callers :
        /\ (LoadEntersNow(c) /\ analemmaCacheData = Null) =>
                fetchCount' = fetchCount + 1 /\ pc'[c] = "awaitFetch"
        /\ (pc[c] = "awaitJson" /\ pc'[c] # pc[c]) =>
                loadOut'[c] = Ok(AssetTable(resource.asset))

---------------------------------------------------------------------------
(* Properties of generateVisualization (VizSpec) *)

VizDone(c) == pc[c] = "done" /\ frame[c].op = "viz"

ErrorShape(r, message) ==
    r = [path |-> Null, sunPosition |-> Null, direction |-> Null,
         isExtreme |-> FALSE, error |-> Str(message)]

\* C2: for a non-null location generateVisualization never rejects, and when
\* the extreme-latitude check, the table load or the day lookup raises, the
\* result has path, sunPosition and direction null, isExtreme false and the
\* error's message.
C2_ErrorsBecomeResults ==
    \A c \in Callers :
        (VizDone(c) /\ frame[c].location # Null) =>
            LET fr == frame[c]
                ex == isSunBelowHorizonAtNoon(fr.location.latitude, fr.date)
                lookup == CoordinatesForDate(loadOut[c].v, fr.date)
            IN  /\ result[c].ok
                /\ ~ex.ok => ErrorShape(result[c].v, ex.message)
                /\ (ex.ok /\ ~loadOut[c].ok) => ErrorShape(result[c].v, MsLoadFailed)
                /\ (ex.ok /\ loadOut[c].ok /\ ~lookup.ok) =>
                        ErrorShape(result[c].v, lookup.message)
                /\ (ex.ok /\ loadOut[c].ok /\ lookup.ok) => result[c].v.error = Null

\* C2 witness: one request ended by a failed load, another by a failed lookup
C2_Witness ==
    /\ VizDone(1) /\ frame[1].location # Null
    /\ result[1] = Ok([path |-> Null, sunPosition |-> Null, direction |-> Null,
                       isExtreme |-> FALSE, error |-> Str(MsLoadFailed)])
    /\ VizDone(2)
    /\ result[2] = Ok([path |-> Null, sunPosition |-> Null, direction |-> Null,
                       isExtreme |-> FALSE, error |-> Str(MsNoData(2))])

VizSucceeded(c) == VizDone(c) /\ result[c].ok /\ result[c].v.error = Null

C10_NoLocationExactText ==
    \A c \in Callers :
        (VizDone(c) /\ frame[c].location = Null) =>
            result[c] = Ok([path |-> Null, sunPosition |-> Null, direction |-> Null,
                            isExtreme |-> FALSE, error |-> Str("no location")])

\* C10 as amended: a call with a null location returns at once, as a normal
\* value, path/sunPosition/direction null, isExtreme false and the error
\* "No location provided", and performs no table load.
C10_NoLocationNoLoad ==
    [][\A c \in Callers :
          (calls'[c] # calls[c] /\ frame'[c].op = "viz" /\ frame'[c].location = Null) =>
              /\ pc'[c] = "done"
              /\ result'[c] = Ok([path |-> Null, sunPosition |-> Null,
                                  direction |-> Null, isExtreme |-> FALSE,
                                  error |-> Str("No location provided")])
              /\ fetchCount' = fetchCount
              /\ loadOut' = loadOut
              /\ analemmaCacheData' = analemmaCacheData]_vars

\* C10 witness: a null-location request has returned and nothing was fetched
C10_Witness ==
    \E c \in Callers :
        /\ VizDone(c)
        /\ frame[c].location = Null
        /\ result[c].ok
        /\ fetchCount = 0
        /\ analemmaCacheData = Null

\* the finished requests whose result carries isExtreme = true
ExtremeResults ==
    {c \in Callers : pc[c] = "done" /\ result[c] # Null /\ result[c].ok
                     /\ result[c].v.isExtreme}

\* C21: a result flagged isExtreme (sun below the horizon at solar noon for
\* the request's latitude and date) still carries a path and a sun position
\* and reports no error
C21_ExtremeStillDrawn ==
    \A c \in ExtremeResults :
        /\ isSunBelowHorizonAtNoon(frame[c].location.latitude, frame[c].date)
              = Ok(TRUE)
        /\ result[c].v.path # Null
        /\ result[c].v.sunPosition # Null
        /\ result[c].v.error = Null

C21_Witness ==
    \E c \in ExtremeResults :
        /\ result[c].v.path # Null
        /\ result[c].v.sunPosition # Null
        /\ frame[c].location = Loc(80, 20)

---------------------------------------------------------------------------
(* Properties of the pure functions (FnSpec) *)

Applied(fn) == call.fn = fn /\ ret # Null

InRange(v, lo, hi) == v.k = "num" /\ lo * v.d <= v.n /\ v.n <= hi * v.d

\* C9: validateCoordinates reports valid exactly when both arguments are
\* finite numbers with latitude in [-90, 90] and longitude in [-180, 180];
\* every other input is reported invalid with a reason.
C9_ValidIffFiniteInRange ==
    Applied("validateCoordinates") =>
        /\ ret.v.isValid <=>
              (InRange(call.latitude, -90, 90) /\ InRange(call.longitude, -180, 180))
        /\ ~ret.v.isValid => "error" \in DOMAIN ret.v

AllSame(seq, f) == \A i, j \in 1..Len(seq) : seq[i][f] = seq[j][f]

\* C8: when all input points of the transform share one x or one y value
\* (a single point included), no returned svgX or svgY is NaN.
C8_DegenerateNoNaN ==
    (/\ Applied("convertToSVGCoordinates")
     /\ Len(call.coordinates) >= 1
     /\ AllSame(call.coordinates, "x") \/ AllSame(call.coordinates, "y"))
        => \A i \in 1..Len(ret.v) : ret.v[i].svgX # NaN /\ ret.v[i].svgY # NaN

\* C5: for every date, today's point transformed together with the full
\* table lies within the [min, max] of the path points' svgX and svgY.
C5_TodayWithinPathBounds ==
    (Applied("jointTransform") /\ ret.ok) =>
        LET xs == Field(ret.v.analemmaCoords, "svgX")
            ys == Field(ret.v.analemmaCoords, "svgY")
            today == ret.v.todayCombined
        IN  /\ JsLe(MathMin(xs), today.svgX) /\ JsLe(today.svgX, MathMax(xs))
            /\ JsLe(MathMin(ys), today.svgY) /\ JsLe(today.svgY, MathMax(ys))

\* the last day of the year has been placed, together with the whole table
C5_Witness ==
    /\ Applied("jointTransform")
    /\ ret.ok
    /\ call.date.ord = YearLen
    /\ ret.v.todayCombined.dayOfYear = YearLen
    /\ Len(ret.v.analemmaCoords) = YearLen

\* a number above zero / below zero, read off its representation
Positive(v) == v.k = "inf" \/ (v.k = "num" /\ v.n > 0)
Negative(v) == v.k = "ninf" \/ (v.k = "num" /\ v.n < 0)

\* C11: the viewing direction is 'S' exactly when latitude > 0 and 'N'
\* otherwise; latitude 0 yields 'N'.
C11_SouthIffPositive ==
    Applied("getAnalemmaDirection") =>
        /\ ret.v \in {"S", "N"}
        /\ ret.v = "S" <=> Positive(call.latitude)

\* the equator has been asked for and looks north
C11_Witness ==
    Applied("getAnalemmaDirection") /\ call.latitude = Num(0) /\ ret.v = "N"

\* C12: applyHemisphereCorrection replaces every svgY by the drawing height
\* minus svgY when latitude < 0 and returns the points unchanged when
\* latitude >= 0; svgX and the number of points never change.
C12_FlipOnlySouth ==
    Applied("applyHemisphereCorrection") =>
        /\ Len(ret.v) = Len(call.coordinates)
        /\ \A i \in 1..Len(ret.v) :
              /\ ret.v[i].svgX = call.coordinates[i].svgX
              /\ ret.v[i].dayOfYear = call.coordinates[i].dayOfYear
              /\ ret.v[i].svgY =
                    IF Negative(call.latitude)
                    THEN JsSub(Num(SvgHeight), call.coordinates[i].svgY)
                    ELSE call.coordinates[i].svgY

\* points on the equator have been passed through unflipped
C12_Witness ==
    /\ Applied("applyHemisphereCorrection")
    /\ call.latitude = Num(0)
    /\ Len(call.coordinates) = MaxPoints
    /\ ret.v = call.coordinates

\* C13: the lookup returns the stored entry for day
\* min(dayOfYear(date), table size) together with the requested date, and
\* fails with an error when the table has no entry for that day.
C13_ClampedEntryOrError ==
    Applied("getAnalemmaCoordinatesForDate") =>
        LET data == AssetTable(call.asset).data
            day == getDayOfYear(call.date).v
            size == Cardinality(DOMAIN data)
            clamped == IF day <= size THEN day ELSE size
        IN  IF clamped \in DOMAIN data
            THEN /\ ret.ok
                 /\ ret.v = [x |-> data[clamped][1], y |-> data[clamped][2],
                             dayOfYear |-> clamped, date |-> call.date]
            ELSE ~ret.ok /\ ret.message = MsNoData(clamped)

\* a day beyond the table's size has been answered with the last entry
C13_Witness ==
    /\ Applied("getAnalemmaCoordinatesForDate")
    /\ ret.ok
    /\ getDayOfYear(call.date).v > Cardinality(DOMAIN AssetTable(call.asset).data)
    /\ ret.v.dayOfYear = Cardinality(DOMAIN AssetTable(call.asset).data)

\* C14: for every calendar date, at any local time of day and whatever the
\* local UTC offset does during the year, getDayOfYear returns the calendar
\* ordinal of the day, an integer from 1 to the length of the year.
C14_DayOfYearIsOrdinal ==
    Applied("getDayOfYear") =>
        /\ ret.ok
        /\ ret.v \in 1..YearLen
        /\ ret.v = call.date.ord

\* h = 12 - longitude/15 - equationOfTime(dayOfYear(date))/60 as the
\* fraction num/den with den > 0
NoonHoursNum(longitude, date) ==
    LET eot == calculateEquationOfTime(getDayOfYear(date).v)
    IN  12 * 60 * longitude.d - 4 * longitude.n - eot * longitude.d
NoonHoursDen(longitude) == 60 * longitude.d

NoonFloor(longitude, date) == NoonHoursNum(longitude, date) \div NoonHoursDen(longitude)

\* the integer part of (h - floor(h)) * 60
NoonMinute(longitude, date) ==
    ((NoonHoursNum(longitude, date) % NoonHoursDen(longitude)) * 60)
        \div NoonHoursDen(longitude)

\* C15 as stated: the solar noon is on the UTC calendar day of `date`, its
\* UTC hour is floor(h), its UTC minute the integer part of
\* (h - floor(h)) * 60, its seconds and milliseconds 0.
C15_SolarNoonOnSameUtcDay ==
    Applied("calculateSolarNoon") =>
        /\ ret.ok
        /\ ret.v.utcDay = UtcDayOf(call.date, call.offset)
        /\ ret.v.utcHours = NoonFloor(call.longitude, call.date)
        /\ ret.v.utcMinutes = NoonMinute(call.longitude, call.date)
        /\ ret.v.utcSeconds = 0 /\ ret.v.utcMilliseconds = 0

\* C15: the solar noon is the instant floor(h) hours and the integer part of
\* (h - floor(h)) * 60 minutes after 00:00 UTC of the UTC calendar day of
\* `date`, with seconds and milliseconds 0; when 0 <= h < 24 it lies on that
\* day with UTC hour floor(h), otherwise it is carried into the adjacent day.
C15_SolarNoonInstant ==
    Applied("calculateSolarNoon") =>
        LET floorH == NoonFloor(call.longitude, call.date)
            minute == NoonMinute(call.longitude, call.date)
            day == UtcDayOf(call.date, call.offset)
        IN  /\ ret.ok
            /\ (ret.v.utcDay - day) * 1440 + ret.v.utcHours * 60 + ret.v.utcMinutes
                  = floorH * 60 + minute
            /\ ret.v.utcHours \in 0..23 /\ ret.v.utcMinutes \in 0..59
            /\ ret.v.utcSeconds = 0 /\ ret.v.utcMilliseconds = 0
            /\ floorH \in 0..23 =>
                  /\ ret.v.utcDay = day
                  /\ ret.v.utcHours = floorH
                  /\ ret.v.utcMinutes = minute

\* a solar noon inside the day with a fractional hour, and the date's UTC
\* day differing from its local day
C15_Witness ==
    /\ Applied("calculateSolarNoon")
    /\ NoonFloor(call.longitude, call.date) \in 0..23
    /\ ret.v.utcMinutes # 0
    /\ ret.v.utcDay # call.date.ord

C22_AllPointsCoverYearInOrder ==
    (Applied("getAllAnalemmaCoordinates") /\ call.asset = "canonical") =>
        /\ Len(ret.v) = YearLen
        /\ \A i \in 1..Len(ret.v) :
              /\ ret.v[i].dayOfYear = i
              /\ ret.v[i].x = generateAnalemmaData.data[i][1]
              /\ ret.v[i].y = generateAnalemmaData.data[i][2]

C22_Witness ==
    /\ Applied("getAllAnalemmaCoordinates")
    /\ call.asset = "canonical"
    /\ Len(ret.v) = YearLen
    /\ ret.v[YearLen].dayOfYear = YearLen

\* the orders in which n points can be visited
Orders(n) == {p \in [1..n -> 1..n] : \A i, j \in 1..n : i # j => p[i] # p[j]}

\* C23: for a non-empty list in any order generateSVGPath emits one M for the
\* point of the smallest dayOfYear, one L for each remaining point in
\* ascending dayOfYear order and a closing Z, and the input list keeps its order
C23_PathVisitsPointsByDay ==
    (Applied("generateSVGPath") /\ Len(call.coordinates) > 0) =>
        LET in == call.coordinates
            n == Len(in)
            out == ret.v.pathString
        IN  /\ Len(out) = n + 1
            /\ out[n + 1] = <<"Z">>
            /\ \E p \in Orders(n) :
                  /\ \A i \in 1..n :
                        out[i] = <<IF i = 1 THEN "M" ELSE "L",
                                   in[p[i]].svgX, in[p[i]].svgY>>
                  /\ \A i \in 1..(n - 1) :
                        in[p[i]].dayOfYear <= in[p[i + 1]].dayOfYear
            /\ ret.v.coordinates = in

\* three points handed over in descending order of day
C23_Witness ==
    /\ Applied("generateSVGPath")
    /\ Len(call.coordinates) = 3
    /\ call.coordinates[1].dayOfYear = 3
    /\ call.coordinates[2].dayOfYear = 2
    /\ call.coordinates[3].dayOfYear = 1
    /\ call.coordinates[3].svgX = Num(370)
    /\ call.coordinates[1].svgX = Num(30)
    /\ ret.v.pathString[1] = <<"M", Num(370), Num(30)>>

\* C29: the arrow rotation is determined by the direction label: two
\* latitudes with the same direction have the same rotation (so latitude 0,
\* direction 'N', has the rotation of the southern latitudes)
C29_RotationFollowsDirection ==
    Applied("calculateDirection") =>
        (ret.v[1].direction = ret.v[2].direction
            => ret.v[1].rotation = ret.v[2].rotation)

---------------------------------------------------------------------------
(* Properties of the controllers (AppSpec) *)

ValidLocation(location) ==
    InRange(location.latitude, -90, 90) /\ InRange(location.longitude, -180, 180)

\* C3: in both controllers state.location is always null or a location with
\* latitude in [-90, 90] and longitude in [-180, 180], and no location that
\* fails validation is handed to the solar-noon or visualization computation.
C3_LocationNullOrValid ==
    /\ state.location = Null \/ ValidLocation(state.location)
    /\ \A location \in pipeline : ValidLocation(location)

\* a location request of SimplifiedAnalemmaPWA ends rejected: the user denied
DeniedStep ==
    /\ app.kind = "simple"
    /\ \E t \in Tasks : tasks[t].pc = "s_position" /\ tasks'[t] = FreeTask
    /\ perm' = "denied"

\* C16: when a location request of SimplifiedAnalemmaPWA is rejected because
\* the user denied permission and no location has been accepted, the state
\* has permissionState 'denied', hasError true, the rejection message,
\* isLoading false, and the UI is rendered with activeScreen 'denied'.
C16_DenialShowsDeniedScreen ==
    [][(DeniedStep /\ state'.location = Null) =>
          /\ state'.permissionState = Str("denied")
          /\ state'.hasError
          /\ state'.errorMessage = Str("User denied permission")
          /\ ~state'.isLoading
          /\ getActiveScreen(state') = "denied"]_vars

\* SimplifiedAnalemmaPWA.initialize is called
InitializeStep == app.kind = "simple" /\ ~app.started /\ app'.started

\* activation t of initialize continues once the permission state is known
InitializeResumes(t) ==
    /\ app.kind = "simple"
    /\ app' = app
    /\ tasks[t].pc \in {"s_init_perm", "s_init_perm_saved"}
    /\ tasks'[t] # tasks[t]

\* C17: SimplifiedAnalemmaPWA.initialize issues a location request exactly
\* when there is no valid saved location and the permission state is
\* 'granted'; with a saved location it adopts it and makes no request, and
\* with permission 'prompt' or 'denied' it makes no request and leaves the
\* location as it is.
C17_InitializeRequestsIffGranted ==
    [][/\ InitializeStep =>
            \E t \in Tasks :
              /\ tasks'[t] # tasks[t]
              /\ IF isValidLocation(storage)
                 THEN tasks'[t].pc = "s_init_perm_saved" /\ state'.location = storage
                 ELSE tasks'[t].pc = "s_init_perm" /\ state'.location = Null
       /\ \A t \in Tasks : InitializeResumes(t) =>
              /\ tasks'[t].pc = "s_position" <=>
                    (tasks[t].pc = "s_init_perm" /\ perm = "granted")
              /\ tasks'[t].pc # "s_position" => tasks'[t] = FreeTask
              /\ state'.location = state.location
              /\ tasks[t].pc = "s_init_perm_saved" => state.location # Null]_vars

\* initialize has issued a location request by itself
C17_Witness ==
    /\ app.kind = "simple"
    /\ app.ops = 0
    /\ perm = "granted"
    /\ \E t \in Tasks : tasks[t].pc = "s_position"


\* the requestLocation calls of SimplifiedAnalemmaPWA still waiting for a result
SimpleInFlight ==
    {t \in DOMAIN tasks : tasks[t].pc \in {"s_position", "s_perm"}}

\* C24: in SimplifiedAnalemmaPWA isLoading is true whenever at least one
\* requestLocation call is still waiting for its result, overlapping calls
\* included
C24_LoadingWhileRequestInFlight ==
    (app.kind = "simple" /\ SimpleInFlight # {}) => state.isLoading

\* activation t of SimplifiedAnalemmaPWA.requestLocation ends in its catch
\* block in this step (geolocation rejected, or the coordinates failed validation)
SimpleFailsNow(t) ==
    /\ app.kind = "simple"
    /\ app' = app
    /\ tasks[t].pc \in {"s_position", "s_perm"}
    /\ tasks'[t] = FreeTask
    /\ state'.hasError

\* C28: a requestLocation call of SimplifiedAnalemmaPWA that fails leaves
\* state.location as it was, and with a location held the active screen after
\* the failure is 'main'
C28_FailureKeepsLocation ==
    [][\A t \in Tasks : SimpleFailsNow(t) =>
            /\ state'.location = state.location
            /\ state.location # Null => getActiveScreen(state') = "main"]_vars

\* a request has failed while a location was held
C28_Witness ==
    /\ app.kind = "simple"
    /\ state.location # Null
    /\ state.hasError
    /\ ~state.isLoading
    /\ getActiveScreen(state) = "main"

---------------------------------------------------------------------------
(* Properties of AppState (StoreSpec) *)

Updated == store # Null /\ store.last # Null

\* the listeners the last update invoked, in the order of the calls
Invoked == [i \in 1 .. Len(store.last.log) |-> store.last.log[i].listener]

\* C19: every update(partial) changes only the keys present in partial, then
\* invokes each listener subscribed at that moment exactly once with (state
\* after the merge, state before the merge), and invokes no listener whose
\* unsubscribe function had been called
C19_UpdateMergesAndNotifiesEach ==
    Updated =>
        /\ \A f \in DOMAIN store.last.oldState :
               store.state[f] = IF f \in DOMAIN store.last.updates
                                THEN store.last.updates[f]
                                ELSE store.last.oldState[f]
        /\ Invoked = store.last.subscribed
        /\ \A i \in 1 .. Len(store.last.log) :
               /\ store.last.log[i].newState = store.state
               /\ store.last.log[i].oldState = store.last.oldState
        /\ Range(Invoked) \cap store.last.cancelled = {}

\* C20: when a listener throws during an update, update does not throw, the
\* merged state is kept, and every other listener subscribed at that moment
\* is notified for that update
C20_ThrowingListenerIsolated ==
    (Updated /\ \E i \in 1 .. Len(store.last.log) : store.last.log[i].threw) =>
        /\ store.last.outcome = Ok(Undefined)
        /\ store.state = Update(store.last.oldState, store.last.updates)
        /\ Range(store.last.subscribed) \subseteq Range(Invoked)

\* C26: every listener subscribed (and not unsubscribed) when an update is
\* made is notified of it, also when another listener calls its own
\* unsubscribe function from inside its notification
C26_NoListenerSkipped ==
    Updated => \A l \in Range(store.last.subscribed) : l \in Range(Invoked)

---------------------------------------------------------------------------
(* Properties of the connectivity handlers (NetSpec) *)

\* C25: while the most recent connectivity event is 'offline' the online flag
\* is false; no connectivity check's result sets it to true before a later
\* 'online' event
C25_OfflineStaysOffline ==
    (net # Null /\ net.lastEvent = "offline") => ~net.isOnline


---------------------------------------------------------------------------
(* Properties of the date-check timer (ClockSpec) *)

\* C30: after a date-check tick currentDate is the current calendar day and,
\* with a location set, the marker is drawn for that day: a tick made on a day
\* other than currentDate's adopts the new day and regenerates the visualization
C30_TickAdoptsNewDate ==
    (clock # Null /\ clock.last = "tick") =>
        /\ clock.currentDate = clock.now
        /\ clock.location => clock.shown = clock.now

=============================================================================
